---- MODULE Spec2Model ----
(***************************************************************************)
(* A model of mulesoft_downloader.py: one MulesoftDownloader per process   *)
(* invocation ("run").  Each run loads its configuration, authenticates,   *)
(* creates its run directory, lists the applications, writes the JSON      *)
(* snapshot and then walks the list (detail call, download).  The runs     *)
(* share the wall clock and the file system; everything else is per run.   *)
(***************************************************************************)
EXTENDS Integers, Sequences, FiniteSets, TLC

\* ------------------------------------------------------------------ bounds
MaxApps == 2            \* longest list response explored
MaxBatch == 3           \* longest list response of the batch specification
MaxTick == 2            \* the clock stops advancing here
TicksPerSecond == 2     \* clock readings per wall-clock second

Runs == {"r1", "r2"}    \* process invocations

\* ------------------------------------------------------- environment (.env)
Unset == "<unset>"      \* os.getenv(var) is None

RequiredVars == <<"ANYPOINT_CLIENT_ID", "ANYPOINT_CLIENT_SECRET",
                  "ANYPOINT_ORG_ID", "ANYPOINT_ENV_ID">>

SelectorValues == {Unset, "", "us", "eu1", "gov", "EU1", "au"}

EnvSpace ==
  [ANYPOINT_CLIENT_ID      : {Unset, "", "id"},
   ANYPOINT_CLIENT_SECRET  : {Unset, "", "secret"},
   ANYPOINT_ORG_ID         : {Unset, "", "org"},
   ANYPOINT_ENV_ID         : {Unset, "", "env"},
   ANYPOINT_CONTROL_PLANE  : SelectorValues]

GoodEnv ==
  [ANYPOINT_CLIENT_ID      |-> "id",
   ANYPOINT_CLIENT_SECRET  |-> "secret",
   ANYPOINT_ORG_ID         |-> "org",
   ANYPOINT_ENV_ID         |-> "env",
   ANYPOINT_CONTROL_PLANE  |-> Unset]

\* (variant) `os.getenv(var) is None`: an empty value passes
NotGetenvIsNone(v) == v = Unset

\* `not os.getenv(var)`: None and the empty string are both falsy
NotGetenv(v) == v = Unset \/ v = ""

\* str.lower() on the selector values of the model
Lower(s) == IF s = "EU1" THEN "eu1" ELSE s

\* os.getenv(var, default)
GetenvDefault(v, default) == IF v = Unset THEN default ELSE v

\* missing_vars, as the set of the names
missing_vars(e) == {RequiredVars[i] : i \in {j \in 1..Len(RequiredVars) : NotGetenv(e[RequiredVars[j]])}}

\* self.control_plane
control_plane_of(e) == Lower(GetenvDefault(e.ANYPOINT_CONTROL_PLANE, "us"))

valid_control_planes == {"us", "eu1", "gov"}

\* _load_config raises (KeyError or ValueError)
LoadConfigRaises(e) ==
  \/ missing_vars(e) # {}
  \/ control_plane_of(e) \notin valid_control_planes

\* self.config
config_of(e) ==
  [client_id       |-> e.ANYPOINT_CLIENT_ID,
   client_secret   |-> e.ANYPOINT_CLIENT_SECRET,
   organization_id |-> e.ANYPOINT_ORG_ID,
   environment_id  |-> e.ANYPOINT_ENV_ID]

NoConfig ==
  [client_id |-> Unset, client_secret |-> Unset,
   organization_id |-> Unset, environment_id |-> Unset]

\* control_plane_domains
control_plane_domains(cp) ==
  CASE cp = "us"  -> "anypoint.mulesoft.com"
    [] cp = "eu1" -> "eu1.anypoint.mulesoft.com"
    [] cp = "gov" -> "gov.anypoint.mulesoft.com"

\* -------------------------------------------------------------- HTTP session
NoHeader == "<none>"

HeaderNames == {"Authorization", "Content-Type", "x-anypnt-env-id", "x-anypnt-org-id"}

\* requests.Session(): none of the four headers is set
EmptyHeaders == [h \in HeaderNames |-> <<NoHeader>>]

\* (variant) the two tenant ids under each other's header
AuthHeadersIdsSwapped(access_token, cfg) ==
  [h \in HeaderNames |->
     CASE h = "Authorization"   -> <<"Bearer", access_token>>
       [] h = "Content-Type"    -> <<"application/json">>
       [] h = "x-anypnt-env-id" -> <<cfg.organization_id>>
       [] h = "x-anypnt-org-id" -> <<cfg.environment_id>>]

\* the argument of session.headers.update
AuthHeaders(access_token, cfg) ==
  [h \in HeaderNames |->
     CASE h = "Authorization"   -> <<"Bearer", access_token>>
       [] h = "Content-Type"    -> <<"application/json">>
       [] h = "x-anypnt-env-id" -> <<cfg.environment_id>>
       [] h = "x-anypnt-org-id" -> <<cfg.organization_id>>]

Tokens == {"t1", "t2"}

\* what the token endpoint can do: a transport error, a non-2xx status, a
\* JSON body without the field, a JSON body with it
AuthOutcomes ==
  {[result |-> "transport", token |-> NoHeader],
   [result |-> "status",    token |-> NoHeader],
   [result |-> "nofield",   token |-> NoHeader]}
  \cup {[result |-> "ok", token |-> t] : t \in Tokens}

\* the JSON body of the token response, as far as the program reads it
TokenBody(o) ==
  IF o.result = "ok" THEN [t |-> "obj", field |-> [t |-> "str", s |-> o.token]]
  ELSE IF o.result = "nofield" THEN [t |-> "obj", field |-> [t |-> "absent", s |-> ""]]
  ELSE [t |-> "null", field |-> [t |-> "absent", s |-> ""]]

\* (variant) response.json().get("access_token"): a missing field passes
SetupSessionRaisesOnRequestError(o) == o.result \in {"transport", "status"}

\* _setup_session raises: RequestException re-raised as Exception, or the
\* KeyError of response.json()["access_token"]
SetupSessionRaises(o) == o.result \in {"transport", "status", "nofield"}

\* -------------------------------------------------------------- timestamps
\* (variant) strftime("%Y%m%d_%H%M"): the reading cut to a coarser unit
StrftimeCoarse(t) == t \div (2 * TicksPerSecond)

\* datetime.now().strftime("%Y%m%d_%H%M%S"): the reading cut to whole seconds
Strftime(t) == t \div TicksPerSecond

InitialDownloadDir == <<"downloads">>

\* f"downloads_{timestamp}"
RunDirName(timestamp) == <<"downloads", timestamp>>

\* --------------------------------------------------------------- JSON values
\* A field of an object: not there, null, or a string
Absent  == [t |-> "absent", s |-> ""]
JNull   == [t |-> "null",   s |-> ""]
JStr(s) == [t |-> "str",    s |-> s]

\* A list element or a detail body: an object with (at most) the one field the
\* program reads of it, or a value that is no object (null stands for them)
Obj(v)    == [t |-> "obj",  field |-> v]
NonObject == [t |-> "null", field |-> Absent]

\* dict.get(key): None when the key is not there
DictGet(o) == IF o.field = Absent THEN JNull ELSE o.field

\* .get on a value that is no dict raises AttributeError
DictGetRaises(o) == o.t # "obj"

\* `if not app_name`: None and "" are falsy
not_app_name(v) == v.t # "str" \/ v.s = ""

\* (variant) `if filename is None`: an empty filename passes
not_filename_is_none(v) == v.t # "str"

\* `if not filename`: None and "" are falsy
not_filename(v) == v.t # "str" \/ v.s = ""

AppNames == {"a"}

\* the elements a list response can hold
Summaries == {NonObject} \cup {Obj(v) : v \in {Absent, JNull, JStr("")} \cup {JStr(n) : n \in AppNames}}

Filenames == {"f.jar"}

\* the bodies a detail response can hold
DetailBodies == {NonObject} \cup {Obj(v) : v \in {Absent, JStr("")} \cup {JStr(f) : f \in Filenames}}

ListsUpTo(n) == UNION {[1..k -> Summaries] : k \in 0..n}

\* json.dump(applications, f, indent=2), as the tokens of the text written
Punct(c) == <<"punct", c>>

DumpScalar(v) == IF v.t = "null" THEN <<"literal", "null">> ELSE <<"string", v.s>>

DumpValue(o) ==
  IF o.t # "obj" THEN << <<"literal", "null">> >>
  ELSE IF o.field = Absent THEN <<Punct("{"), Punct("}")>>
  ELSE <<Punct("{"), <<"string", "domain">>, Punct(":"), DumpScalar(o.field), Punct("}")>>

RECURSIVE DumpItems(_)
DumpItems(apps) ==
  IF apps = <<>> THEN <<>>
  ELSE IF Len(apps) = 1 THEN DumpValue(apps[1])
  ELSE DumpValue(apps[1]) \o <<Punct(",")>> \o DumpItems(Tail(apps))

\* (variant) only the records with an identifier are dumped
JsonDumpNamedOnly(apps) ==
  <<Punct("[")>>
  \o DumpItems(SelectSeq(apps, LAMBDA a : a.t = "obj" /\ a.field.t = "str" /\ a.field.s # ""))
  \o <<Punct("]")>>

JsonDump(apps) == <<Punct("[")>> \o DumpItems(apps) \o <<Punct("]")>>

\* --------------------------------------------------------------- file system
\* Application names and filenames are plain path components (no separator,
\* not "." or ".."), so os.path.join keeps the three parts of a path apart.
\* os.path.join(self.download_dir, json_filename)
SnapshotPath(dir, timestamp) ==
  [dir |-> dir, sub |-> "", name |-> "applications_list", stamp |-> timestamp]

\* app_dir = os.path.join(self.download_dir, app_name)
AppDir(dir, app_name) == [dir |-> dir, sub |-> app_name]

\* output_path = os.path.join(app_dir, filename)
OutputPath(dir, app_name, filename) ==
  [dir |-> dir, sub |-> app_name, name |-> filename, stamp |-> -1]

NoPath == [dir |-> <<"none">>, sub |-> "", name |-> "", stamp |-> -1]

\* the bytes the download endpoint streams for an artifact
Artifact(app_name, filename) == << <<"bytes", app_name>>, <<"bytes", filename>> >>

\* open(path, 'w') ... write: the file is created or replaced
WriteFile(fs, path, content) ==
  [p \in DOMAIN fs \cup {path} |-> IF p = path THEN content ELSE fs[p]]

\* ------------------------------------------------------------------- state
VARIABLES
  now,            \* the wall clock, in ticks
  server,         \* the list the platform returns to the list call
  env,            \* [run -> the process environment after load_dotenv]
  pc,             \* [run -> where the run is]
  config,         \* [run -> self.config]
  control_plane,  \* [run -> self.control_plane]
  base_domain,    \* [run -> the host of self.auth_url and self.base_url]
  headers,        \* [run -> self.session.headers]
  download_dir,   \* [run -> self.download_dir]
  created_at,     \* [run -> the clock reading _setup_download_dir took]
  json_path,      \* [run -> the path of the snapshot file]
  applications,   \* [run -> the list get_applications returned]
  index,          \* [run -> the position of the loop in the list]
  filename,       \* [run -> the filename of the detail response in hand]
  calls,          \* [run -> the HTTP requests sent, in order]
  outcome,        \* [run -> how each iteration of the loop ended, in order]
  report,         \* [run -> what main and process_all_applications printed]
  dirs,           \* the directories that exist
  files,          \* [path -> content] of the files that exist
  made,           \* the os.makedirs calls that returned: {[run, index, dir]}
  written         \* [run -> the paths of the files the run wrote, in order]

vars == <<now, server, env, pc, config, control_plane, base_domain, headers,
          download_dir, created_at, json_path, applications, index, filename,
          calls, outcome, report, dirs, files, made, written>>

runvars == <<config, control_plane, base_domain, headers, download_dir, created_at,
             json_path, applications, index, filename, calls, outcome>>

NoFile == "<none>"

\* a run before main() is entered; "idle" runs are never started
InitFor(active, e) ==
  /\ now = 0
  /\ env = e
  /\ pc = [r \in Runs |-> IF r \in active THEN "main" ELSE "idle"]
  /\ config = [r \in Runs |-> NoConfig]
  /\ control_plane = [r \in Runs |-> Unset]
  /\ base_domain = [r \in Runs |-> Unset]
  /\ headers = [r \in Runs |-> EmptyHeaders]
  /\ download_dir = [r \in Runs |-> InitialDownloadDir]
  /\ created_at = [r \in Runs |-> -1]
  /\ json_path = [r \in Runs |-> NoPath]
  /\ applications = [r \in Runs |-> <<>>]
  /\ index = [r \in Runs |-> 0]
  /\ filename = [r \in Runs |-> NoFile]
  /\ calls = [r \in Runs |-> <<>>]
  /\ outcome = [r \in Runs |-> <<>>]
  /\ report = [r \in Runs |-> {}]
  /\ dirs = {}
  /\ files = <<>>
  /\ made = {}
  /\ written = [r \in Runs |-> <<>>]

\* one invocation, any environment, any list on the platform
Init ==
  /\ server \in ListsUpTo(MaxApps)
  /\ \E e \in EnvSpace : InitFor({"r1"}, [r \in Runs |-> IF r = "r1" THEN e ELSE GoodEnv])

\* one invocation with a good environment, lists long enough for a record
\* to stand between two others
InitBatch ==
  /\ server \in ListsUpTo(MaxBatch)
  /\ InitFor({"r1"}, [r \in Runs |-> GoodEnv])

\* two invocations with a good environment against the same applications
InitTwoRuns ==
  /\ server \in [1..1 -> Summaries]
  /\ InitFor(Runs, [r \in Runs |-> GoodEnv])

\* ------------------------------------------------------------------ actions
Tick ==
  /\ now < MaxTick
  /\ now' = now + 1
  /\ UNCHANGED <<server, env, pc, report, dirs, files, made, written>>
  /\ UNCHANGED runvars

\* main's `except Exception`: "Fatal error: ..." and the process ends
Fatal(r) ==
  /\ pc' = [pc EXCEPT ![r] = "exit"]
  /\ report' = [report EXCEPT ![r] = @ \cup {"Fatal error"}]

\* __init__ up to self.download_dir = "downloads": _load_config,
\* _setup_base_urls, requests.Session()
LoadConfig(r) ==
  /\ pc[r] = "main"
  /\ IF LoadConfigRaises(env[r])
     THEN /\ Fatal(r)
          /\ UNCHANGED <<config, control_plane, base_domain>>
     ELSE /\ config' = [config EXCEPT ![r] = config_of(env[r])]
          /\ control_plane' = [control_plane EXCEPT ![r] = control_plane_of(env[r])]
          /\ base_domain' = [base_domain EXCEPT ![r] = control_plane_domains(control_plane_of(env[r]))]
          /\ pc' = [pc EXCEPT ![r] = "auth"]
          /\ UNCHANGED report
  /\ UNCHANGED <<now, server, env, headers, download_dir, created_at, json_path,
                 applications, index, filename, calls, outcome, dirs, files, made, written>>

\* one HTTP request as it is sent
Request(kind, i, host, app, file, hdrs, result, body) ==
  [kind |-> kind, index |-> i, host |-> host, app |-> app, file |-> file,
   headers |-> hdrs, result |-> result, body |-> body]

\* _setup_session: requests.post (not the session) to the token endpoint
SetupSession(r) ==
  /\ pc[r] = "auth"
  /\ \E o \in AuthOutcomes :
       /\ calls' = [calls EXCEPT ![r] =
            Append(@, Request("token", 0, base_domain[r], NoFile, NoFile,
                              EmptyHeaders, o.result, TokenBody(o)))]
       /\ IF SetupSessionRaises(o)
          THEN /\ Fatal(r)
               /\ UNCHANGED headers
          ELSE /\ headers' = [headers EXCEPT ![r] = AuthHeaders(o.token, config[r])]
               /\ pc' = [pc EXCEPT ![r] = "mkdir"]
               /\ UNCHANGED report
  /\ UNCHANGED <<now, server, env, config, control_plane, base_domain, download_dir,
                 created_at, json_path, applications, index, filename, outcome,
                 dirs, files, made, written>>

\* _setup_download_dir: os.makedirs(..., exist_ok=True)
SetupDownloadDir(r) ==
  /\ pc[r] = "mkdir"
  /\ download_dir' = [download_dir EXCEPT ![r] = RunDirName(Strftime(now))]
  /\ created_at' = [created_at EXCEPT ![r] = now]
  /\ dirs' = dirs \cup {AppDir(RunDirName(Strftime(now)), "")}
  /\ made' = made \cup {[run |-> r, index |-> 0, dir |-> AppDir(RunDirName(Strftime(now)), "")]}
  /\ pc' = [pc EXCEPT ![r] = "list"]
  /\ UNCHANGED <<now, server, env, config, control_plane, base_domain, headers,
                 json_path, applications, index, filename, calls, outcome, report,
                 files, written>>

\* what a GET can do at the transport and status level
GetResults == {"transport", "status", "ok"}

\* response.raise_for_status() or the transport raises a RequestException
RequestFails(result) == result \in {"transport", "status"}

\* main after process_all_applications has returned
Completed(r) ==
  /\ pc' = [pc EXCEPT ![r] = "exit"]
  /\ report' = [report EXCEPT ![r] = @ \cup {"Process completed successfully!"}]

\* the outer `except Exception` of process_all_applications: it prints and
\* returns, and main goes on as after any return
ProcessError(r) ==
  /\ pc' = [pc EXCEPT ![r] = "exit"]
  /\ report' = [report EXCEPT ![r] =
       @ \cup {"Error during process", "Process completed successfully!"}]

\* get_applications, called first in the outer try
GetApplications(r) ==
  /\ pc[r] = "list"
  /\ \E result \in GetResults :
       /\ calls' = [calls EXCEPT ![r] =
            Append(@, Request("list", 0, base_domain[r], NoFile, NoFile,
                              headers[r], result, NonObject))]
       /\ IF RequestFails(result)
          THEN /\ ProcessError(r)
               /\ UNCHANGED applications
          ELSE /\ applications' = [applications EXCEPT ![r] = server]
               /\ pc' = [pc EXCEPT ![r] = "snapshot"]
               /\ UNCHANGED report
  /\ UNCHANGED <<now, server, env, config, control_plane, base_domain, headers,
                 download_dir, created_at, json_path, index, filename, outcome,
                 dirs, files, made, written>>

\* "Save applications JSON to root": the file may fail to open (OSError)
SaveSnapshot(r) ==
  /\ pc[r] = "snapshot"
  /\ LET path == SnapshotPath(download_dir[r], Strftime(now))
     IN  /\ json_path' = [json_path EXCEPT ![r] = path]
         /\ \E opened \in BOOLEAN :
              IF opened
              THEN /\ files' = WriteFile(files, path, JsonDump(applications[r]))
                   /\ written' = [written EXCEPT ![r] = Append(@, path)]
                   /\ index' = [index EXCEPT ![r] = 1]
                   /\ pc' = [pc EXCEPT ![r] = "loop"]
                   /\ UNCHANGED report
              ELSE /\ ProcessError(r)
                   /\ UNCHANGED <<files, written, index>>
  /\ UNCHANGED <<now, server, env, config, control_plane, base_domain, headers,
                 download_dir, created_at, applications, filename, calls, outcome,
                 dirs, made>>

\* the statements of the loop body that the inner try covers
InnerTry == {"get_application_info", "filename", "download_application"}

\* `continue`, or the end of the loop body: on to the next record
Continue(r, how) ==
  /\ outcome' = [outcome EXCEPT ![r] = Append(@, how)]
  /\ index' = [index EXCEPT ![r] = @ + 1]
  /\ filename' = [filename EXCEPT ![r] = NoFile]
  /\ pc' = [pc EXCEPT ![r] = "loop"]
  /\ UNCHANGED report

\* an exception out of statement `stmt` of the loop body: the inner
\* `except Exception` takes it when the try covers the statement, the outer
\* one of process_all_applications otherwise
Raise(r, stmt, how) ==
  IF stmt \in InnerTry
  THEN Continue(r, how)
  ELSE /\ ProcessError(r)
       /\ outcome' = [outcome EXCEPT ![r] = Append(@, "aborted")]
       /\ filename' = [filename EXCEPT ![r] = NoFile]
       /\ UNCHANGED index

\* the head of the for loop and the body up to `if not app_name: continue`
NextApplication(r) ==
  /\ pc[r] = "loop"
  /\ IF index[r] > Len(applications[r])
     THEN /\ Completed(r)
          /\ UNCHANGED <<outcome, index, filename>>
     ELSE LET app == applications[r][index[r]]
          IN  IF DictGetRaises(app) THEN Raise(r, "domain", "error")
              ELSE IF not_app_name(DictGet(app)) THEN Continue(r, "no_domain")
              ELSE /\ pc' = [pc EXCEPT ![r] = "detail"]
                   /\ UNCHANGED <<outcome, index, filename, report>>
  /\ UNCHANGED <<now, server, env, config, control_plane, base_domain, headers,
                 download_dir, created_at, json_path, applications, calls,
                 dirs, files, made, written>>

\* app_name of the iteration in hand
app_name(r) == DictGet(applications[r][index[r]]).s

DetailOutcomes ==
  {[result |-> res, body |-> NonObject] : res \in {"transport", "status"}}
  \cup {[result |-> "ok", body |-> b] : b \in DetailBodies}

\* get_application_info and the body up to `if not filename: ... continue`
GetApplicationInfo(r) ==
  /\ pc[r] = "detail"
  /\ \E o \in DetailOutcomes :
       /\ calls' = [calls EXCEPT ![r] =
            Append(@, Request("detail", index[r], base_domain[r], app_name(r), NoFile,
                              headers[r], o.result, o.body))]
       /\ IF RequestFails(o.result) THEN Raise(r, "get_application_info", "detail_failed")
          ELSE IF DictGetRaises(o.body) THEN Raise(r, "filename", "error")
          ELSE IF not_filename(DictGet(o.body)) THEN Continue(r, "no_filename")
          ELSE /\ filename' = [filename EXCEPT ![r] = DictGet(o.body).s]
               /\ pc' = [pc EXCEPT ![r] = "download"]
               /\ UNCHANGED <<outcome, index, report>>
  /\ UNCHANGED <<now, server, env, config, control_plane, base_domain, headers,
                 download_dir, created_at, json_path, applications,
                 dirs, files, made, written>>

\* what download_application can meet: os.makedirs fails, the GET fails, the
\* file cannot be opened or written, all goes well
DownloadOutcomes == {"makedirs_oserror", "transport", "status", "write_oserror", "ok"}

\* the result of the GET of a download that got that far
DownloadResult(o) == IF o \in {"transport", "status"} THEN o ELSE "ok"

\* download_application and the rest of the loop body
DownloadApplication(r) ==
  /\ pc[r] = "download"
  /\ \E o \in DownloadOutcomes :
       LET app_dir == AppDir(download_dir[r], app_name(r))
           output_path == OutputPath(download_dir[r], app_name(r), filename[r])
       IN  IF o = "makedirs_oserror"
           THEN /\ Raise(r, "download_application", "error")
                /\ UNCHANGED <<calls, dirs, files, made, written>>
           ELSE /\ dirs' = dirs \cup {app_dir}
                /\ made' = made \cup {[run |-> r, index |-> index[r], dir |-> app_dir]}
                /\ calls' = [calls EXCEPT ![r] =
                     Append(@, Request("download", index[r], base_domain[r], app_name(r),
                                       filename[r], headers[r], DownloadResult(o), NonObject))]
                /\ IF RequestFails(DownloadResult(o))
                   THEN /\ Continue(r, "download_failed")
                        /\ UNCHANGED <<files, written>>
                   ELSE IF o = "write_oserror"
                   THEN /\ Raise(r, "download_application", "error")
                        /\ UNCHANGED <<files, written>>
                   ELSE /\ files' = WriteFile(files, output_path,
                                              Artifact(app_name(r), filename[r]))
                        /\ written' = [written EXCEPT ![r] = Append(@, output_path)]
                        /\ Continue(r, "downloaded")
  /\ UNCHANGED <<now, server, env, config, control_plane, base_domain, headers,
                 download_dir, created_at, json_path, applications>>

Next ==
  \/ Tick
  \/ \E r \in Runs :
       \/ LoadConfig(r)
       \/ SetupSession(r)
       \/ SetupDownloadDir(r)
       \/ GetApplications(r)
       \/ SaveSnapshot(r)
       \/ NextApplication(r)
       \/ GetApplicationInfo(r)
       \/ DownloadApplication(r)

Spec == Init /\ [][Next]_vars

SpecBatch == InitBatch /\ [][Next]_vars

SpecTwoRuns == InitTwoRuns /\ [][Next]_vars

\* ================================================================== claims
\* What the claims speak of, read off the requests sent and the responses got
IsObject(o) == o.t = "obj"

\* the field is there and is a non-empty string
HasString(o) == o.t = "obj" /\ o.field.t = "str" /\ o.field.s # ""

CallsOfKind(r, kind) == {i \in DOMAIN calls[r] : calls[r][i].kind = kind}

\* the call met a transport error or a non-success status
CallFailed(c) == c.result \in {"transport", "status"}

\* the run got into the loop: the list call succeeded and the snapshot was saved
LoopEntered(r) == written[r] # <<>>

\* the detail call of record j, sent after request k
DetailAttempted(r, j, k) ==
  \E d \in CallsOfKind(r, "detail") :
    /\ d > k
    /\ calls[r][d].index = j
    /\ calls[r][d].app = applications[r][j].field.s

DetailCallsInListOrder(r) ==
  \A d1, d2 \in CallsOfKind(r, "detail") :
    d1 < d2 => calls[r][d1].index < calls[r][d2].index

\* ------------------------------------------------------------------------ C1
\* C1 (as claimed): when the detail call or the download call of record K
\* fails with a transport or HTTP-status error, every later record of the
\* list that has a non-empty 'domain' still gets its detail call, in list
\* order, by the time the run has ended.
C1_LaterRecordsStillAttempted ==
  \A r \in Runs :
    /\ DetailCallsInListOrder(r)
    /\ pc[r] = "exit" =>
         \A k \in CallsOfKind(r, "detail") \cup CallsOfKind(r, "download") :
           CallFailed(calls[r][k]) =>
             \A j \in (calls[r][k].index + 1)..Len(applications[r]) :
               HasString(applications[r][j]) => DetailAttempted(r, j, k)

\* C1, for the lists it holds of: the same, when the records between K and
\* the later record are JSON objects.
C1_LaterObjectRecordsStillAttempted ==
  \A r \in Runs :
    /\ DetailCallsInListOrder(r)
    /\ pc[r] = "exit" =>
         \A k \in CallsOfKind(r, "detail") \cup CallsOfKind(r, "download") :
           CallFailed(calls[r][k]) =>
             \A j \in (calls[r][k].index + 1)..Len(applications[r]) :
               ( /\ HasString(applications[r][j])
                 /\ \A m \in (calls[r][k].index + 1)..(j - 1) : IsObject(applications[r][m]) )
               => DetailAttempted(r, j, k)

\* ------------------------------------------------------------------------ C2
\* the records without a usable identifier
WithoutIdentifier(r) == {i \in DOMAIN applications[r] : ~HasString(applications[r][i])}

\* C2 (as claimed): a run that went through a list of N records, M of them
\* without a usable 'domain', has attempted exactly N - M detail calls when it
\* ends: one per record with an identifier, none for the others.
C2_ExactlyNMinusMDetailCalls ==
  \A r \in Runs :
    (pc[r] = "exit" /\ LoopEntered(r)) =>
      /\ Cardinality(CallsOfKind(r, "detail"))
           = Len(applications[r]) - Cardinality(WithoutIdentifier(r))
      /\ \A i \in DOMAIN applications[r] :
           Cardinality({d \in CallsOfKind(r, "detail") : calls[r][d].index = i})
             = IF i \in WithoutIdentifier(r) THEN 0 ELSE 1

\* C2, for the lists it holds of: the same, when every record is a JSON object.
C2_ExactlyNMinusMForObjects ==
  \A r \in Runs :
    ( /\ pc[r] = "exit"
      /\ LoopEntered(r)
      /\ \A i \in DOMAIN applications[r] : IsObject(applications[r][i]) ) =>
      /\ Cardinality(CallsOfKind(r, "detail"))
           = Len(applications[r]) - Cardinality(WithoutIdentifier(r))
      /\ \A i \in DOMAIN applications[r] :
           Cardinality({d \in CallsOfKind(r, "detail") : calls[r][d].index = i})
             = IF i \in WithoutIdentifier(r) THEN 0 ELSE 1

\* ------------------------------------------------------------------------ C3
\* the detail call answered, and its body has no usable 'filename'
LacksFilename(c) == c.kind = "detail" /\ c.result = "ok" /\ ~HasString(c.body)

\* C3: a record whose detail response has no (or an empty) 'filename' gets no
\* download call and no subdirectory, and the loop moves past it; a download
\* call, and a subdirectory, come only after a detail call of the same record
\* that returned a non-empty filename.
C3_NoFilenameNoDownload ==
  \A r \in Runs :
    /\ \A d \in CallsOfKind(r, "detail") :
         LacksFilename(calls[r][d]) =>
           /\ \A k \in CallsOfKind(r, "download") : calls[r][k].index # calls[r][d].index
           /\ \A m \in made : ~(m.run = r /\ m.index = calls[r][d].index)
           /\ index[r] > calls[r][d].index
    /\ \A k \in CallsOfKind(r, "download") :
         \E d \in CallsOfKind(r, "detail") :
           /\ d < k
           /\ calls[r][d].index = calls[r][k].index
           /\ calls[r][d].result = "ok"
           /\ HasString(calls[r][d].body)
           /\ calls[r][k].file = calls[r][d].body.field.s
           /\ calls[r][k].app = calls[r][d].app
    /\ \A m \in made :
         (m.run = r /\ m.index > 0) =>
           \E d \in CallsOfKind(r, "detail") :
             /\ calls[r][d].index = m.index
             /\ HasString(calls[r][d].body)

\* a record was skipped for its missing filename and the next one was asked for
C3_Witness ==
  \E r \in Runs :
    /\ pc[r] = "exit"
    /\ \E d1, d2 \in CallsOfKind(r, "detail") :
         /\ LacksFilename(calls[r][d1])
         /\ calls[r][d1].body = Obj(JStr(""))
         /\ calls[r][d2].index = calls[r][d1].index + 1
         /\ \E k \in CallsOfKind(r, "download") : calls[r][k].index = calls[r][d2].index

\* ------------------------------------------------------------------------ C4
\* one of the four required values is missing or empty
RequiredValueMissing(e) ==
  \E i \in DOMAIN RequiredVars : e[RequiredVars[i]] \in {Unset, ""}

\* construction failed with nothing sent and nothing created
FailedBeforeAnyCall(r) ==
  /\ pc[r] \in {"main", "exit"}
  /\ pc[r] = "exit" => report[r] = {"Fatal error"}
  /\ calls[r] = <<>>
  /\ created_at[r] = -1
  /\ download_dir[r] = InitialDownloadDir
  /\ \A m \in made : m.run # r
  /\ written[r] = <<>>

\* C4 (as claimed): a selector that is not one of us, eu1, gov, or a required
\* value that is missing or empty, makes construction fail before any HTTP
\* call and before the run directory is created.
C4_SelectorOutsideSetFails ==
  \A r \in Runs :
    ( \/ RequiredValueMissing(env[r])
      \/ /\ env[r].ANYPOINT_CONTROL_PLANE # Unset
         /\ env[r].ANYPOINT_CONTROL_PLANE \notin {"us", "eu1", "gov"} )
    => FailedBeforeAnyCall(r)

\* C4 (amended): a selector that, lower-cased, is not one of us, eu1, gov, or
\* a required value that is missing or empty, makes construction fail before
\* any HTTP call and before the run directory is created.
C4_BadConfigFailsBeforeAnyCall ==
  \A r \in Runs :
    ( \/ RequiredValueMissing(env[r])
      \/ /\ env[r].ANYPOINT_CONTROL_PLANE # Unset
         /\ Lower(env[r].ANYPOINT_CONTROL_PLANE) \notin {"us", "eu1", "gov"} )
    => FailedBeforeAnyCall(r)

\* construction has failed on a selector outside the set, the four required
\* values being there
C4_Witness ==
  \E r \in Runs :
    /\ pc[r] = "exit"
    /\ report[r] = {"Fatal error"}
    /\ ~RequiredValueMissing(env[r])
    /\ env[r].ANYPOINT_CONTROL_PLANE = "au"
    /\ calls[r] = <<>>

\* ------------------------------------------------------------------------ C5
\* C5: when the token POST meets a transport error, a non-success status or
\* a body without 'access_token', the run is over on main's fatal path: the
\* POST is the only request sent, no run directory exists, nothing is written.
C5_AuthFailureIsFatal ==
  \A r \in Runs :
    (calls[r] # <<>> /\ calls[r][1].result \in {"transport", "status", "nofield"}) =>
      /\ pc[r] = "exit"
      /\ report[r] = {"Fatal error"}
      /\ Len(calls[r]) = 1
      /\ calls[r][1].kind = "token"
      /\ created_at[r] = -1
      /\ download_dir[r] = InitialDownloadDir
      /\ \A m \in made : m.run # r
      /\ written[r] = <<>>

\* the token response came without the field and the run ended
C5_Witness ==
  \E r \in Runs :
    /\ calls[r] # <<>>
    /\ calls[r][1].result = "nofield"
    /\ pc[r] = "exit"

\* ------------------------------------------------------------------------ C6
\* the three headers, with the token of the token response and the two ids of
\* the environment
CarriesAuthentication(r, hdrs) ==
  /\ calls[r][1].kind = "token"
  /\ calls[r][1].result = "ok"
  /\ hdrs["Authorization"] = <<"Bearer", calls[r][1].body.field.s>>
  /\ hdrs["x-anypnt-org-id"] = <<env[r].ANYPOINT_ORG_ID>>
  /\ hdrs["x-anypnt-env-id"] = <<env[r].ANYPOINT_ENV_ID>>

\* C6: after a successful authentication every request of the run carries the
\* three headers with the values set at authentication, the session keeps them
\* to the end, and the token was got by the one POST of the run.
C6_EveryRequestCarriesHeaders ==
  \A r \in Runs :
    /\ Cardinality(CallsOfKind(r, "token")) <= 1
    /\ pc[r] \notin {"idle", "main", "auth"} /\ calls[r] # <<>> =>
         Cardinality(CallsOfKind(r, "token")) = 1
    /\ \A k \in DOMAIN calls[r] :
         calls[r][k].kind # "token" => CarriesAuthentication(r, calls[r][k].headers)
    /\ (calls[r] # <<>> /\ calls[r][1].result = "ok") =>
         CarriesAuthentication(r, headers[r])

\* a list call, a detail call and a download call have all been sent
C6_Witness ==
  \E r \in Runs :
    /\ pc[r] = "exit"
    /\ CallsOfKind(r, "list") # {}
    /\ CallsOfKind(r, "detail") # {}
    /\ CallsOfKind(r, "download") # {}
    /\ calls[r][1].body.field.s = "t2"

\* ------------------------------------------------------------------------ C7
RunDirCreated(r) == created_at[r] >= 0

NoSharedFile(r1, r2) ==
  \A i \in DOMAIN written[r1] : \A j \in DOMAIN written[r2] :
    written[r1][i] # written[r2][j]

\* C7 (as claimed): two runs never use the same run directory and never write
\* the same file, whatever their start times.
C7_RunDirsNeverCollide ==
  \A r1, r2 \in Runs :
    (r1 # r2 /\ RunDirCreated(r1) /\ RunDirCreated(r2)) =>
      /\ download_dir[r1] # download_dir[r2]
      /\ NoSharedFile(r1, r2)

\* C7 (amended): two runs that create their run directories in different
\* wall-clock seconds use different run directories and never write the same
\* file, also when they process the same applications.
C7_DistinctSecondsDistinctDirs ==
  \A r1, r2 \in Runs :
    ( /\ r1 # r2
      /\ RunDirCreated(r1)
      /\ RunDirCreated(r2)
      /\ created_at[r1] \div TicksPerSecond # created_at[r2] \div TicksPerSecond ) =>
      /\ download_dir[r1] # download_dir[r2]
      /\ NoSharedFile(r1, r2)

\* both runs, started in different seconds, have saved the snapshot and the
\* artifact of the same application
C7_Witness ==
  /\ \A r \in Runs : pc[r] = "exit" /\ Len(written[r]) = 2
  /\ created_at["r1"] \div TicksPerSecond # created_at["r2"] \div TicksPerSecond
  /\ written["r1"][2].sub = written["r2"][2].sub
  /\ written["r1"][2].name = written["r2"][2].name

\* ------------------------------------------------------------------------ C8
\* json.load of the text of a snapshot: the reading the round trip is about
ParseScalar(tok) == IF tok[1] = "literal" THEN JNull ELSE JStr(tok[2])

ValueLen(toks) ==
  IF toks[1] # Punct("{") THEN 1
  ELSE IF toks[2] = Punct("}") THEN 2 ELSE 5

ParseValue(toks) ==
  IF toks[1] # Punct("{") THEN NonObject
  ELSE IF toks[2] = Punct("}") THEN Obj(Absent)
  ELSE Obj(ParseScalar(toks[4]))

RECURSIVE ParseItems(_)
ParseItems(toks) ==
  IF toks = <<>> \/ Head(toks) = Punct("]") THEN <<>>
  ELSE IF Head(toks) = Punct(",") THEN ParseItems(Tail(toks))
  ELSE LET n == ValueLen(toks)
       IN  <<ParseValue(SubSeq(toks, 1, n))>> \o ParseItems(SubSeq(toks, n + 1, Len(toks)))

JsonLoad(text) == ParseItems(Tail(text))

SnapshotSaved(r) == json_path[r] \in DOMAIN files

\* C8: the snapshot file, once saved, reads back as the list that drives the
\* loop, which is the list response; it lies in the run directory, it is the
\* first and only write of it, it is there before the first detail call and
\* stays so to the end of the run.
C8_SnapshotEqualsList ==
  \A r \in Runs :
    /\ SnapshotSaved(r) =>
         /\ JsonLoad(files[json_path[r]]) = applications[r]
         /\ applications[r] = server
         /\ json_path[r].dir = download_dir[r]
         /\ written[r][1] = json_path[r]
         /\ \A i \in DOMAIN written[r] : i > 1 => written[r][i] # json_path[r]
    /\ (index[r] >= 1 \/ CallsOfKind(r, "detail") # {}) => SnapshotSaved(r)

\* the run is over, its snapshot holds a record with a null identifier and a
\* record that was downloaded
C8_Witness ==
  \E r \in Runs :
    /\ pc[r] = "exit"
    /\ SnapshotSaved(r)
    /\ Len(applications[r]) = 2
    /\ applications[r][1] = Obj(JNull)
    /\ Len(written[r]) = 2

\* ------------------------------------------------------------------------ C9
\* C9 (as claimed): when the list call fails, the run ends on main's fatal
\* path, without the success report, with no snapshot and no detail or
\* download call.
C9_ListFailureIsFatal ==
  \A r \in Runs :
    (\E k \in CallsOfKind(r, "list") : CallFailed(calls[r][k])) =>
      /\ "Fatal error" \in report[r]
      /\ "Process completed successfully!" \notin report[r]
      /\ written[r] = <<>>
      /\ CallsOfKind(r, "detail") = {}
      /\ CallsOfKind(r, "download") = {}

\* C9, the part that holds: after a failed list call nothing is written and no
\* detail or download call is made.
C9_ListFailureStopsRun ==
  \A r \in Runs :
    (\E k \in CallsOfKind(r, "list") : CallFailed(calls[r][k])) =>
      /\ pc[r] = "exit"
      /\ "Error during process" \in report[r]
      /\ written[r] = <<>>
      /\ CallsOfKind(r, "detail") = {}
      /\ CallsOfKind(r, "download") = {}

\* ----------------------------------------------------------------------- C10
\* C10 (as claimed): whatever is raised while a record is handled, the loop
\* goes through all the records and the run ends normally.
C10_EveryRecordProcessed ==
  \A r \in Runs :
    (pc[r] = "exit" /\ LoopEntered(r)) =>
      /\ index[r] = Len(applications[r]) + 1
      /\ Len(outcome[r]) = Len(applications[r])
      /\ "Error during process" \notin report[r]

\* C10, for the lists it holds of: the same, when every record is a JSON object.
C10_EveryObjectRecordProcessed ==
  \A r \in Runs :
    ( /\ pc[r] = "exit"
      /\ LoopEntered(r)
      /\ \A i \in DOMAIN applications[r] : IsObject(applications[r][i]) ) =>
      /\ index[r] = Len(applications[r]) + 1
      /\ Len(outcome[r]) = Len(applications[r])
      /\ "Error during process" \notin report[r]

====
